---------------------------- MODULE Spec2Model ----------------------------
(***************************************************************************)
(* LINE sticker sheet splitter (src/app.py).                               *)
(*                                                                         *)
(* An image is modelled by its size <<width, height>>; a crop rectangle by *)
(* <<x1, y1, x2, y2>>; a bounding box by <<x, y, w, h>>.  The pixel        *)
(* content of an image is not modelled: a composed sticker records the     *)
(* canvas size, the size of the resized artwork and where it was pasted.   *)
(* The background-removal oracle (rembg.remove) and the OpenCV contour     *)
(* tracer are external: the oracle either raises or returns an image of    *)
(* the same size, and the contours handed to the filter are inputs.        *)
(***************************************************************************)
EXTENDS Integers, Sequences, FiniteSets, TLC

VARIABLES
    pc,                 \* position of the running handler
    original_image,     \* <<width, height>> of the uploaded image
    cols, rows,         \* grid widgets (number_input)
    apply_rembg,        \* checkbox
    full_nobg,          \* process_auto_mode: what remove_background_full did
    min_area_percent,   \* slider, in tenths of a percent
    padding,            \* crop_stickers_by_boxes' padding argument
    contours,           \* what cv2.findContours returned: Seq of [area, box]
    bounding_boxes,     \* result of find_sticker_contours
    cropped_images,     \* Seq of crops [box |-> rectangle, size |-> <<w, h>>]
    processed_stickers, \* Seq of composed stickers
    warnings,           \* Seq of st.warning indices (i + 1)
    errors,             \* Seq of st.error messages
    zip_file,           \* Seq of archive entries [name, sticker]
    i                   \* how many crops the loop has gone through

vars == <<pc, original_image, cols, rows, apply_rembg, full_nobg, min_area_percent,
          padding, contours, bounding_boxes, cropped_images,
          processed_stickers, warnings, errors, zip_file, i>>

-----------------------------------------------------------------------------
(* Program constants.                                                      *)

LINE_STICKER_MAX_WIDTH == 370
LINE_STICKER_MAX_HEIGHT == 320
STICKER_MARGIN == 10
LINE_MAIN_WIDTH == 240
LINE_MAIN_HEIGHT == 240
LINE_TAB_WIDTH == 96
LINE_TAB_HEIGHT == 74
MAIN_MARGIN == 5
TAB_MARGIN == 3

Max(a, b) == IF a >= b THEN a ELSE b
Min(a, b) == IF a <= b THEN a ELSE b

-----------------------------------------------------------------------------
(* Python floats.  `a / b` on ints, `n * x`, `x / n` and `int(x)` are      *)
(* IEEE-754 binary64 operations, each correctly rounded (round half to     *)
(* even).  A positive float is [m |-> mantissa, e |-> exponent] of value   *)
(* m * 2^e, where m has exactly MantissaBits bits.  A mantissa, like any   *)
(* natural number too large for one machine integer here, is a tuple of    *)
(* limbs of LimbBits bits, most significant first, without a leading zero  *)
(* limb.  Only positive floats occur where the program computes with       *)
(* them, and the ints it multiplies and divides them by are below          *)
(* LimbBase.                                                               *)

MantissaBits == 53
LimbBits == 15
LimbBase == 32768

RECURSIVE Pow2(_)
Pow2(n) == IF n = 0 THEN 1 ELSE 2 * Pow2(n - 1)

\* The number of bits of v.
RECURSIVE BitLen(_)
BitLen(v) == IF v = 0 THEN 0 ELSE 1 + BitLen(v \div 2)

\* The function f on 1..n as a tuple.
AsSeq(f, n) == SubSeq(f, 1, n)

Reverse(s) == AsSeq([k \in 1..Len(s) |-> s[Len(s) + 1 - k]], Len(s))

\* big without its leading zero limbs.
BigTrim(big) ==
    IF \A k \in 1..Len(big) : big[k] = 0 THEN <<>>
    ELSE LET first == CHOOSE k \in 1..Len(big) :
                          big[k] # 0 /\ \A q \in 1..(k - 1) : big[q] = 0
         IN  SubSeq(big, first, Len(big))

BigBitLen(big) ==
    IF big = <<>> THEN 0 ELSE (Len(big) - 1) * LimbBits + BitLen(big[1])

\* n * limbs + carry, limbs least significant first.
RECURSIVE MulLimbs(_, _, _)
MulLimbs(limbs, n, carry) ==
    IF limbs = <<>>
    THEN IF carry = 0 THEN <<>> ELSE <<carry>>
    ELSE LET v == Head(limbs) * n + carry IN
         <<v % LimbBase>> \o MulLimbs(Tail(limbs), n, v \div LimbBase)

BigMul(big, n) == BigTrim(Reverse(MulLimbs(Reverse(big), n, 0)))

\* limbs (most significant first) divided by n, from remainder r on:
\* [q |-> the quotient's limbs, rem |-> the remainder].
RECURSIVE DivLimbs(_, _, _)
DivLimbs(limbs, n, r) ==
    IF limbs = <<>> THEN [q |-> <<>>, rem |-> r]
    ELSE LET v == r * LimbBase + Head(limbs)
             rest == DivLimbs(Tail(limbs), n, v % n)
         IN  [q |-> <<v \div n>> \o rest.q, rem |-> rest.rem]

BigDiv(big, n) ==
    LET d == DivLimbs(big, n, 0) IN [q |-> BigTrim(d.q), rem |-> d.rem]

\* big * LimbBase^k.
BigShiftLimbs(big, k) == big \o [j \in 1..k |-> 0]

\* big shifted right by s bits: [q |-> the result, lost |-> whether a 1
\* was shifted out].
BigShiftRight(big, s) ==
    LET drop == Min(s \div LimbBits, Len(big))
        r == s % LimbBits
        kept == SubSeq(big, 1, Len(big) - drop)
        low == Pow2(r)
        high == Pow2(LimbBits - r)
        shifted == [j \in 1..Len(kept) |->
                       (IF j = 1 THEN 0 ELSE (kept[j - 1] % low) * high)
                           + kept[j] \div low]
    IN  [q |-> BigTrim(AsSeq(shifted, Len(kept))),
         lost |-> \/ \E j \in (Len(big) - drop + 1)..Len(big) : big[j] # 0
                  \/ kept # <<>> /\ kept[Len(kept)] % low # 0]

\* big shifted left by s bits.
BigShiftLeft(big, s) ==
    LET r == s % LimbBits
        low == Pow2(LimbBits - r)
        high == Pow2(r)
        wide == <<0>> \o big
        shifted == [j \in 1..Len(wide) |->
                       (wide[j] % low) * high
                           + (IF j = Len(wide) THEN 0 ELSE wide[j + 1] \div low)]
    IN  BigShiftLimbs(BigTrim(AsSeq(shifted, Len(wide))), s \div LimbBits)

BigOdd(big) == big # <<>> /\ big[Len(big)] % 2 = 1

\* x < y for two numbers of the same number of limbs.
BigLess(x, y) ==
    \E k \in 1..Len(x) : x[k] < y[k] /\ \A q \in 1..(k - 1) : x[q] = y[q]

\* The integer big stands for (it must fit one).
RECURSIVE BigToInt(_)
BigToInt(big) ==
    IF big = <<>> THEN 0
    ELSE BigToInt(SubSeq(big, 1, Len(big) - 1)) * LimbBase + big[Len(big)]

\* The float nearest to (big + f) * 2^e, where 0 <= f < 1 and sticky tells
\* whether f > 0; ties go to the even mantissa.  With sticky, big must have
\* more than MantissaBits bits.
float_round(big, sticky, e) ==
    LET len == BigBitLen(big) IN
    IF len <= MantissaBits
    THEN [m |-> BigShiftLeft(big, MantissaBits - len),
          e |-> e - (MantissaBits - len)]
    ELSE LET s == len - MantissaBits
             g == BigShiftRight(big, s - 1)
             guard == BigOdd(g.q)
             m == BigShiftRight(g.q, 1).q
             up == guard /\ (sticky \/ g.lost \/ BigOdd(m))
             m1 == BigTrim(Reverse(MulLimbs(Reverse(m), 1, 1)))
         IN  IF ~up THEN [m |-> m, e |-> e + s]
             ELSE IF BigBitLen(m1) > MantissaBits
             THEN [m |-> BigShiftRight(m1, 1).q, e |-> e + s + 1]
             ELSE [m |-> m1, e |-> e + s]

\* Python's a / b for ints 1 <= a, b < LimbBase.
float_div(a, b) ==
    LET zeros == (MantissaBits + 2) \div LimbBits + 2
        d == BigDiv(BigShiftLimbs(<<a>>, zeros), b)
    IN  float_round(d.q, d.rem # 0, -(zeros * LimbBits))

\* Python's n * x for an int 1 <= n < LimbBase and a float x.
float_mul_int(n, x) == float_round(BigMul(x.m, n), FALSE, x.e)

\* Python's x / n for a float x and an int 1 <= n < LimbBase.
float_div_int(x, n) ==
    LET zeros == 2
        d == BigDiv(BigShiftLimbs(x.m, zeros), n)
    IN  float_round(d.q, d.rem # 0, x.e - zeros * LimbBits)

\* x * 0.5: exact.
float_half(x) == [m |-> x.m, e |-> x.e - 1]

\* x < y for positive floats.
float_less(x, y) == x.e < y.e \/ (x.e = y.e /\ BigLess(x.m, y.m))

\* min(x, y): Python returns the first argument unless the second is less.
float_min(x, y) == IF float_less(y, x) THEN y ELSE x

\* int(x) for a positive float below 2^31: truncation.
float_int(x) ==
    IF x.e >= 0 THEN BigToInt(BigShiftLeft(x.m, x.e))
    ELSE BigToInt(BigShiftRight(x.m, -x.e).q)

-----------------------------------------------------------------------------
(* Pillow.                                                                 *)

\* Image.crop(box): ValueError when right < left or lower < upper; otherwise
\* an image of size (right - left, lower - upper), which may be empty and
\* may reach outside the image.
crop_raises(box) == box[3] < box[1] \/ box[4] < box[2]

crop(box) == [box |-> box, size |-> <<box[3] - box[1], box[4] - box[2]>>]

-----------------------------------------------------------------------------
(* grid_split                                                              *)

\* for col in range(cols): the cells of one row, from column col on.
RECURSIVE grid_split_row(_, _, _, _, _)
grid_split_row(row, col, ncols, cell_width, cell_height) ==
    IF col >= ncols THEN <<>>
    ELSE LET x1 == col * cell_width
             y1 == row * cell_height
             x2 == x1 + cell_width
             y2 == y1 + cell_height
         IN  <<crop(<<x1, y1, x2, y2>>)>>
                 \o grid_split_row(row, col + 1, ncols, cell_width, cell_height)

\* for row in range(rows): the rows from row on.
RECURSIVE grid_split_rows(_, _, _, _, _)
grid_split_rows(row, nrows, ncols, cell_width, cell_height) ==
    IF row >= nrows THEN <<>>
    ELSE grid_split_row(row, 0, ncols, cell_width, cell_height)
             \o grid_split_rows(row + 1, nrows, ncols, cell_width, cell_height)

\* grid_split with the cell size rounded up, so that the cells cover the
\* remainder pixels.
grid_split_ceil(image, ncols, nrows) ==
    LET cell_width == (image[1] + ncols - 1) \div ncols
        cell_height == (image[2] + nrows - 1) \div nrows
    IN  grid_split_rows(0, nrows, ncols, cell_width, cell_height)

grid_split(image, ncols, nrows) ==
    LET img_width == image[1]
        img_height == image[2]
        cell_width == img_width \div ncols
        cell_height == img_height \div nrows
    IN  grid_split_rows(0, nrows, ncols, cell_width, cell_height)

-----------------------------------------------------------------------------
(* The composers.  Each takes the size of image_nobg, the image after the  *)
(* background-removal step (rembg.remove or convert('RGBA'), both size     *)
(* preserving), and returns the canvas: its size, the size of the resized  *)
(* artwork and the place it was pasted at.  art = <<0, 0>> is the fully    *)
(* transparent canvas, onto which nothing was pasted.                      *)

transparent_canvas(canvas_width, canvas_height) ==
    [canvas |-> <<canvas_width, canvas_height>>,
     art |-> <<0, 0>>, paste |-> <<0, 0>>]

\* compose with the artwork pasted at the margin's corner, not centered.
compose_top_left(canvas_width, canvas_height, margin, image_nobg) ==
    IF image_nobg[1] = 0 \/ image_nobg[2] = 0
    THEN transparent_canvas(canvas_width, canvas_height)
    ELSE LET scale == float_min(
                 float_div(canvas_width - (margin * 2), image_nobg[1]),
                 float_div(canvas_height - (margin * 2), image_nobg[2]))
         IN  [canvas |-> <<canvas_width, canvas_height>>,
              art |-> <<Max(1, float_int(float_mul_int(image_nobg[1], scale))),
                        Max(1, float_int(float_mul_int(image_nobg[2], scale)))>>,
              paste |-> <<margin, margin>>]

\* compose without the early return for an empty image: the empty side is
\* resized to max(1, 0) = 1 pixel and pasted.
compose_no_fallback(canvas_width, canvas_height, margin, image_nobg) ==
    LET new_width == Min(Max(1, image_nobg[1]), canvas_width - (margin * 2))
        new_height == Min(Max(1, image_nobg[2]), canvas_height - (margin * 2))
    IN  [canvas |-> <<canvas_width, canvas_height>>,
         art |-> <<new_width, new_height>>,
         paste |-> <<(canvas_width - new_width) \div 2,
                     (canvas_height - new_height) \div 2>>]

compose(canvas_width, canvas_height, margin, image_nobg) ==
    LET usable_width == canvas_width - (margin * 2)
        usable_height == canvas_height - (margin * 2)
        img_width == image_nobg[1]
        img_height == image_nobg[2]
    IN  IF img_width = 0 \/ img_height = 0
        THEN transparent_canvas(canvas_width, canvas_height)
        ELSE LET scale == float_min(float_div(usable_width, img_width),
                                    float_div(usable_height, img_height))
                 new_width == Max(1, float_int(float_mul_int(img_width, scale)))
                 new_height == Max(1, float_int(float_mul_int(img_height, scale)))
                 paste_x == (canvas_width - new_width) \div 2
                 paste_y == (canvas_height - new_height) \div 2
             IN  [canvas |-> <<canvas_width, canvas_height>>,
                  art |-> <<new_width, new_height>>,
                  paste |-> <<paste_x, paste_y>>]

\* process_single_sticker scaling to the whole canvas, without STICKER_MARGIN.
process_single_sticker_no_margin(image_nobg) ==
    compose(LINE_STICKER_MAX_WIDTH, LINE_STICKER_MAX_HEIGHT, 0, image_nobg)

process_single_sticker(image_nobg) ==
    compose(LINE_STICKER_MAX_WIDTH, LINE_STICKER_MAX_HEIGHT, STICKER_MARGIN,
            image_nobg)

resize_to_main(image_nobg) ==
    compose(LINE_MAIN_WIDTH, LINE_MAIN_HEIGHT, MAIN_MARGIN, image_nobg)

resize_to_tab(image_nobg) ==
    compose(LINE_TAB_WIDTH, LINE_TAB_HEIGHT, TAB_MARGIN, image_nobg)

\* What the background-removal step of a composer can do: remove(image) may
\* raise, image.convert('RGBA') does not.
remove_outcomes(rembg) == IF rembg THEN {"ok", "raise"} ELSE {"ok"}

-----------------------------------------------------------------------------
(* create_zip_download                                                     *)

\* The decimal digits of n >= 0, most significant first.
RECURSIVE digits(_)
digits(n) == IF n < 10 THEN <<n>> ELSE digits(n \div 10) \o <<n % 10>>

\* f'{n:02d}': the digits of n, padded on the left with 0 to width 2.
format_02d(n) ==
    LET d == digits(n) IN IF Len(d) < 2 THEN <<0>> \o d ELSE d

\* f'sticker_{n:02d}.png'
zip_name(n) == [prefix |-> "sticker_", number |-> format_02d(n), suffix |-> ".png"]

\* for i, sticker in enumerate(stickers, 1): writestr(name, png); start is
\* enumerate's second argument.
zip_write(stickers, start) ==
    [k \in 1..Len(stickers) |->
        [name |-> zip_name(start + k - 1), data |-> stickers[k]]]

\* create_zip_download with enumerate(stickers), which counts from 0.
create_zip_download_from_zero(stickers) == zip_write(stickers, 0)

create_zip_download(stickers) == zip_write(stickers, 1)


-----------------------------------------------------------------------------
(* find_sticker_contours, from the contours cv2.findContours returned on.  *)
(* A contour is [area2 |-> twice cv2.contourArea (the area of a polygon    *)
(* with integer vertices is a multiple of 0.5), box |-> <<x, y, w, h>>     *)
(* as cv2.boundingRect gives it].                                          *)

ASPECT_LIMIT == 10

\* min_area = int(total_area * min_area_percent / 100); the slider's value
\* is the float nearest to tenths / 10.
min_area_of(image, tenths) ==
    LET img_width == image[1]
        img_height == image[2]
        total_area == img_height * img_width
    IN  float_int(float_div_int(
            float_mul_int(total_area, float_div(tenths, 10)), 100))

\* The aspect test with aspect_ratio <= 10 in place of aspect_ratio < 10.
aspect_ok_inclusive(w, h) == Min(w, h) > 0 /\ Max(w, h) <= ASPECT_LIMIT * Min(w, h)

\* aspect_ratio = max(w, h) / min(w, h) if min(w, h) > 0 else 999;
\* the test is aspect_ratio < 10.
aspect_ok(w, h) ==
    IF Min(w, h) > 0
    THEN float_less(float_div(Max(w, h), Min(w, h)), float_div(ASPECT_LIMIT, 1))
    ELSE 999 < ASPECT_LIMIT

\* The loop over the contours: the boxes kept, in the contours' order.
RECURSIVE filter_contours(_, _)
filter_contours(cs, min_area) ==
    IF cs = <<>> THEN <<>>
    ELSE LET c == Head(cs)
             rest == filter_contours(Tail(cs), min_area)
         IN  IF c.area2 >= 2 * min_area /\ aspect_ok(c.box[3], c.box[4])
             THEN <<c.box>> \o rest
             ELSE rest

RECURSIVE sum_heights(_)
sum_heights(boxes) ==
    IF boxes = <<>> THEN 0 ELSE Head(boxes)[4] + sum_heights(Tail(boxes))

\* int(row_threshold), row_threshold = avg_height * 0.5.
row_divisor(boxes) ==
    float_int(float_half(float_div(sum_heights(boxes), Len(boxes))))

\* row_threshold > 0: the heights are >= 0, so their average times 0.5 is
\* positive exactly when their sum is.
row_threshold_positive(boxes) == sum_heights(boxes) > 0

\* The sort key without the row bands: (box[1], box[0]).
sort_key_no_band(box, boxes) == <<box[2], box[1]>>

\* The sort key: (box[1] // int(row_threshold) if row_threshold > 0
\* else box[1], box[0]).  Taken only when the division does not raise.
sort_key(box, boxes) ==
    <<IF row_threshold_positive(boxes) THEN box[2] \div row_divisor(boxes)
      ELSE box[2],
      box[1]>>

\* Tuple comparison k1 < k2 of two keys.
key_less(k1, k2) == k1[1] < k2[1] \/ (k1[1] = k2[1] /\ k1[2] < k2[2])

\* list.sort is stable: b goes before the first element whose key is
\* greater than b's, after every element whose key is equal.
RECURSIVE sort_insert(_, _, _)
sort_insert(sorted, b, boxes) ==
    IF sorted = <<>> THEN <<b>>
    ELSE IF key_less(sort_key(b, boxes), sort_key(Head(sorted), boxes))
         THEN <<b>> \o sorted
         ELSE <<Head(sorted)>> \o sort_insert(Tail(sorted), b, boxes)

RECURSIVE sort_boxes(_, _, _)
sort_boxes(sorted, todo, boxes) ==
    IF todo = <<>> THEN sorted
    ELSE sort_boxes(sort_insert(sorted, Head(todo), boxes), Tail(todo), boxes)

\* [raised |-> a ZeroDivisionError left the function, boxes |-> the list
\* bounding_boxes when the function ended: its result, or, when the sort's key
\* raised, the boxes kept, which list.sort leaves as they were].
find_sticker_contours(image, cs, tenths) ==
    LET boxes == filter_contours(cs, min_area_of(image, tenths)) IN
    IF boxes = <<>> THEN [raised |-> FALSE, boxes |-> <<>>]
    ELSE IF row_threshold_positive(boxes) /\ row_divisor(boxes) = 0
         THEN [raised |-> TRUE, boxes |-> boxes]
         ELSE [raised |-> FALSE, boxes |-> sort_boxes(<<>>, boxes, boxes)]

-----------------------------------------------------------------------------
(* crop_stickers_by_boxes                                                  *)

\* crop_box without the clamping to the image.
crop_box_unclamped(image, box, pad) ==
    <<box[1] - pad, box[2] - pad, box[1] + box[3] + pad, box[2] + box[4] + pad>>

crop_box(image, box, pad) ==
    LET x1 == Max(0, box[1] - pad)
        y1 == Max(0, box[2] - pad)
        x2 == Min(image[1], box[1] + box[3] + pad)
        y2 == Min(image[2], box[2] + box[4] + pad)
    IN  <<x1, y1, x2, y2>>

\* [raised |-> a crop raised ValueError, images |-> the crops].
RECURSIVE crop_stickers_by_boxes(_, _, _)
crop_stickers_by_boxes(image, boxes, pad) ==
    IF boxes = <<>> THEN [raised |-> FALSE, images |-> <<>>]
    ELSE LET rect == crop_box(image, Head(boxes), pad)
             rest == crop_stickers_by_boxes(image, Tail(boxes), pad)
         IN  IF crop_raises(rect) \/ rest.raised
             THEN [raised |-> TRUE, images |-> <<>>]
             ELSE [raised |-> FALSE, images |-> <<crop(rect)>> \o rest.images]


-----------------------------------------------------------------------------
(* The handlers.  One run of the script: a button starts process_grid_mode *)
(* or process_auto_mode on the uploaded image; the loop over the crops     *)
(* takes one step per crop; display_results ends the run.                  *)

DEFAULT_PADDING == 10
MAX_GRID == 20

\* st.progress(value) raises unless 0 <= value <= 100.
progress_raises(value) == value < 0 \/ value > 100

\* base + int((i + 1) / len(cropped_images) * span)
progress_value(base, span, done, total) ==
    base + float_int(float_mul_int(span, float_div(done, total)))

\* A composed sticker in processed_stickers; pixels names the crop whose
\* artwork it shows.
sticker_of(canvas, index) ==
    [canvas |-> canvas.canvas, art |-> canvas.art, paste |-> canvas.paste,
     pixels |-> index]

\* display_results: the archive is built, and the download offered, only
\* for a non-empty list.
display_results(stickers) ==
    zip_file' = IF stickers # <<>> THEN create_zip_download(stickers) ELSE <<>>

process_grid_mode(c, r, rembg) ==
    /\ pc = "main"
    /\ cols' = c
    /\ rows' = r
    /\ apply_rembg' = rembg
    /\ cropped_images' = grid_split(original_image, c, r)
    /\ processed_stickers' = <<>>
    /\ i' = 0
    /\ pc' = "grid_loop"
    /\ UNCHANGED <<original_image, full_nobg, min_area_percent, padding,
                   contours, bounding_boxes, warnings, errors, zip_file>>

\* The loop with the try around the whole loop instead of around its body:
\* the first exception ends the loop.
loop_body_abort(rembg, base, span) ==
    /\ i < Len(cropped_images)
    /\ \E outcome \in remove_outcomes(rembg) :
          IF outcome = "raise"
          THEN /\ warnings' = Append(warnings, i + 1)
               /\ i' = Len(cropped_images)
               /\ UNCHANGED processed_stickers
          ELSE /\ processed_stickers' =
                      Append(processed_stickers,
                             sticker_of(process_single_sticker(
                                            cropped_images[i + 1].size), i + 1))
               /\ i' = i + 1
               /\ UNCHANGED warnings
    /\ UNCHANGED <<pc, original_image, cols, rows, apply_rembg, full_nobg,
                   min_area_percent, padding, contours, bounding_boxes,
                   cropped_images, errors, zip_file>>

\* One pass of `for i, cropped in enumerate(cropped_images)`, try and except.
loop_body(rembg, base, span) ==
    /\ i < Len(cropped_images)
    /\ \E outcome \in remove_outcomes(rembg) :
          IF outcome = "raise"
          THEN /\ warnings' = Append(warnings, i + 1)
               /\ UNCHANGED processed_stickers
          ELSE LET processed == process_single_sticker(cropped_images[i + 1].size)
                   progress == progress_value(base, span, i + 1,
                                              Len(cropped_images))
               IN  /\ processed_stickers' =
                          Append(processed_stickers, sticker_of(processed, i + 1))
                   /\ warnings' = IF progress_raises(progress)
                                  THEN Append(warnings, i + 1)
                                  ELSE warnings
    /\ i' = i + 1
    /\ UNCHANGED <<pc, original_image, cols, rows, apply_rembg, full_nobg,
                   min_area_percent, padding, contours, bounding_boxes,
                   cropped_images, errors, zip_file>>

loop_exit ==
    /\ i = Len(cropped_images)
    /\ display_results(processed_stickers)
    /\ pc' = "done"
    /\ UNCHANGED <<original_image, cols, rows, apply_rembg, full_nobg,
                   min_area_percent, padding, contours, bounding_boxes,
                   cropped_images, processed_stickers, warnings, errors, i>>

grid_loop_body == pc = "grid_loop" /\ loop_body(apply_rembg, 20, 75)

grid_loop_exit == pc = "grid_loop" /\ loop_exit

\* process_auto_mode from find_sticker_contours up to its loop; errs is
\* what st.error has shown so far.
auto_detect(cs, tenths, errs) ==
    \E found \in {find_sticker_contours(original_image, cs, tenths)} :
    \E crops \in {IF found.raised THEN found
                  ELSE crop_stickers_by_boxes(original_image, found.boxes,
                                              DEFAULT_PADDING)} :
        /\ min_area_percent' = tenths
        /\ contours' = cs
        /\ IF found.raised
           THEN /\ pc' = "exception"
                /\ errors' = errs
                /\ UNCHANGED <<bounding_boxes, cropped_images, i>>
           ELSE IF Len(found.boxes) = 0
           THEN /\ bounding_boxes' = found.boxes
                /\ errors' = Append(errs, "no_stickers")
                /\ pc' = "done"
                /\ UNCHANGED <<cropped_images, i>>
           ELSE IF crops.raised
           THEN /\ bounding_boxes' = found.boxes
                /\ pc' = "exception"
                /\ errors' = errs
                /\ UNCHANGED <<cropped_images, i>>
           ELSE /\ bounding_boxes' = found.boxes
                /\ cropped_images' = crops.images
                /\ i' = 0
                /\ pc' = "auto_loop"
                /\ errors' = errs

\* process_auto_mode going on with the original image, after the error
\* message, when remove_background_full raised.
process_auto_mode_no_return(outcome, cs, tenths) ==
    /\ pc = "main"
    /\ full_nobg' = IF outcome = "raise" THEN "raised" ELSE "removed"
    /\ auto_detect(cs, tenths,
                   IF outcome = "raise" THEN Append(errors, "remove_failed")
                   ELSE errors)
    /\ UNCHANGED <<original_image, cols, rows, apply_rembg, padding,
                   processed_stickers, warnings, zip_file>>

\* process_auto_mode up to its loop.  outcome is what remove_background_full
\* did, cs what cv2.findContours returned, tenths the slider.
process_auto_mode(outcome, cs, tenths) ==
    /\ pc = "main"
    /\ IF outcome = "raise"
       THEN /\ full_nobg' = "raised"
            /\ errors' = Append(errors, "remove_failed")
            /\ pc' = "done"
            /\ UNCHANGED <<min_area_percent, contours, bounding_boxes,
                           cropped_images, i>>
       ELSE /\ full_nobg' = "removed"
            /\ auto_detect(cs, tenths, errors)
    /\ UNCHANGED <<original_image, cols, rows, apply_rembg, padding,
                   processed_stickers, warnings, zip_file>>

auto_loop_body == pc = "auto_loop" /\ loop_body(TRUE, 40, 55)

auto_loop_exit == pc = "auto_loop" /\ loop_exit

-----------------------------------------------------------------------------
(* Inputs.                                                                 *)

MaxCols == 3
MaxRows == 2
MaxBoxes == 2

\* Sequences over S of length at most n.
SeqsUpTo(S, n) == UNION {[1..k -> S] : k \in 0..n}

\* box lies inside image.
box_inside(image, b) ==
    /\ 0 <= b[1] /\ 0 <= b[2]
    /\ b[1] + b[3] <= image[1] /\ b[2] + b[4] <= image[2]

\* The contours of a box: the polygon's vertices lie on the box's border
\* pixels, so the area is at most (w - 1) * (h - 1).
ContoursOf(boxes) ==
    {[area2 |-> a, box |-> b] : a \in {0, 2}, b \in boxes} \cup
    {[area2 |-> 2 * (b[3] - 1) * (b[4] - 1), box |-> b] : b \in boxes}

RealContour(c) == c.area2 <= 2 * (c.box[3] - 1) * (c.box[4] - 1)

Images == {<<1, 1>>, <<2, 2>>, <<4, 5>>}

Boxes == {<<0, 0, 1, 1>>, <<0, 0, 2, 2>>, <<1, 2, 2, 3>>, <<0, 1, 1, 4>>}

Contours(image) ==
    {c \in ContoursOf({b \in Boxes : box_inside(image, b)}) : RealContour(c)}

InitCommon ==
    /\ pc = "main"
    /\ cols = 4
    /\ rows = 7
    /\ apply_rembg = TRUE
    /\ full_nobg = "unset"
    /\ min_area_percent = 5
    /\ padding = DEFAULT_PADDING
    /\ contours = <<>>
    /\ bounding_boxes = <<>>
    /\ cropped_images = <<>>
    /\ processed_stickers = <<>>
    /\ warnings = <<>>
    /\ errors = <<>>
    /\ zip_file = <<>>
    /\ i = 0

Init == InitCommon /\ original_image \in Images

Next ==
    \/ \E c \in 1..MaxCols, r \in 1..MaxRows, rembg \in BOOLEAN :
          process_grid_mode(c, r, rembg)
    \/ grid_loop_body
    \/ grid_loop_exit
    \/ \E outcome \in {"ok", "raise"}, tenths \in {1, 5, 50} :
          \E cs \in SeqsUpTo(Contours(original_image), MaxBoxes) :
             process_auto_mode(outcome, cs, tenths)
    \/ auto_loop_body
    \/ auto_loop_exit

Spec == Init /\ [][Next]_vars


-----------------------------------------------------------------------------
(* The sheet scenario: process_grid_mode without background removal, on    *)
(* sheets that divide evenly, that leave remainder pixels and that are     *)
(* smaller than the grid.                                                  *)

SheetCols == 4
SheetRows == 7

SheetImages == {<<1480, 2240>>, <<1483, 2245>>, <<370, 320>>, <<3, 5>>}

InitSheet == InitCommon /\ original_image \in SheetImages

NextSheet ==
    \/ \E c \in 1..SheetCols, r \in 1..SheetRows :
          process_grid_mode(c, r, FALSE)
    \/ grid_loop_body
    \/ grid_loop_exit

SpecSheet == InitSheet /\ [][NextSheet]_vars

-----------------------------------------------------------------------------
(* The three composers as functions of a crop: a grid cell of an image,    *)
(* which is empty when the image is smaller than the grid.                 *)

ComposeGrid == 2

ComposeImages ==
    {1, 2, 3, 79, 281, 370, 741} \X {1, 2, 3, 291, 320, 333}

InitCompose ==
    /\ InitCommon
    /\ original_image \in ComposeImages

\* composer(image, apply_rembg) on the first cell of a grid split.
call_composer(name, c, r, rembg) ==
    /\ pc = "main"
    /\ cols' = c
    /\ rows' = r
    /\ apply_rembg' = rembg
    /\ cropped_images' = grid_split(original_image, c, r)
    /\ \E outcome \in remove_outcomes(rembg) :
          IF outcome = "raise"
          THEN /\ pc' = "exception"
               /\ UNCHANGED processed_stickers
          ELSE LET image_nobg == cropped_images'[1].size
                   canvas == CASE name = "process_single_sticker" ->
                                      process_single_sticker(image_nobg)
                               [] name = "resize_to_main" ->
                                      resize_to_main(image_nobg)
                               [] name = "resize_to_tab" ->
                                      resize_to_tab(image_nobg)
               IN  /\ processed_stickers' = <<sticker_of(canvas, 1)>>
                   /\ pc' = name
    /\ UNCHANGED <<original_image, full_nobg, min_area_percent, padding,
                   contours, bounding_boxes, warnings, errors, zip_file, i>>

call_process_single_sticker ==
    \E c \in 1..ComposeGrid, r \in 1..ComposeGrid, rembg \in BOOLEAN :
        call_composer("process_single_sticker", c, r, rembg)

call_resize_to_main ==
    \E c \in 1..ComposeGrid, r \in 1..ComposeGrid, rembg \in BOOLEAN :
        call_composer("resize_to_main", c, r, rembg)

call_resize_to_tab ==
    \E c \in 1..ComposeGrid, r \in 1..ComposeGrid, rembg \in BOOLEAN :
        call_composer("resize_to_tab", c, r, rembg)

NextCompose ==
    call_process_single_sticker \/ call_resize_to_main \/ call_resize_to_tab

SpecCompose == InitCompose /\ [][NextCompose]_vars

-----------------------------------------------------------------------------
(* find_sticker_contours as a function of the contours found.              *)

MaxY == 1

ContourImages == {<<20, 10>>}

\* Square regions, left or right, with the largest area their box allows.
SquareContours ==
    {[area2 |-> 2 * (h - 1) * (h - 1), box |-> <<x, y, h, h>>] :
        x \in {0, 1}, y \in 0..MaxY, h \in {1, 2, 3, 5}}

InitContours == InitCommon /\ original_image \in ContourImages

call_find_sticker_contours ==
    /\ pc = "main"
    /\ \E tenths \in {1, 5} :
       \E cs \in SeqsUpTo(SquareContours, MaxBoxes) :
       \E found \in {find_sticker_contours(original_image, cs, tenths)} :
          /\ min_area_percent' = tenths
          /\ contours' = cs
          /\ bounding_boxes' = found.boxes
          /\ pc' = IF found.raised THEN "exception" ELSE "found"
    /\ UNCHANGED <<original_image, cols, rows, apply_rembg, full_nobg,
                   padding, cropped_images, processed_stickers, warnings,
                   errors, zip_file, i>>

NextContours == call_find_sticker_contours

SpecContours == InitContours /\ [][NextContours]_vars

-----------------------------------------------------------------------------
(* crop_stickers_by_boxes as a function of the boxes and the padding.      *)

MaxPadding == 2

CropImages == {<<2, 2>>}

\* The boxes inside image, empty ones and ones touching an edge included.
BoxesInside(image) ==
    {b \in (0..image[1]) \X (0..image[2]) \X (0..image[1]) \X (0..image[2]) :
        b[1] + b[3] <= image[1] /\ b[2] + b[4] <= image[2]}

InitCrop == InitCommon /\ original_image \in CropImages

call_crop_stickers_by_boxes ==
    /\ pc = "main"
    /\ \E pad \in 0..MaxPadding :
       \E boxes \in SeqsUpTo(BoxesInside(original_image), MaxBoxes) :
       \E crops \in {crop_stickers_by_boxes(original_image, boxes, pad)} :
          /\ padding' = pad
          /\ bounding_boxes' = boxes
          /\ cropped_images' = crops.images
          /\ pc' = IF crops.raised THEN "exception" ELSE "cropped"
    /\ UNCHANGED <<original_image, cols, rows, apply_rembg, full_nobg,
                   min_area_percent, contours, processed_stickers, warnings,
                   errors, zip_file, i>>

NextCrop == call_crop_stickers_by_boxes

SpecCrop == InitCrop /\ [][NextCrop]_vars

-----------------------------------------------------------------------------
(* create_zip_download as a function of the list: up to MAX_GRID columns   *)
(* by MAX_GRID rows of stickers.                                           *)

InitZip == InitCommon /\ original_image \in {<<LINE_STICKER_MAX_WIDTH, LINE_STICKER_MAX_HEIGHT>>}

call_create_zip_download ==
    /\ pc = "main"
    /\ \E n \in 1..(MAX_GRID * MAX_GRID) :
          LET stickers == [k \in 1..n |->
                              sticker_of(transparent_canvas(original_image[1],
                                                            original_image[2]), k)]
          IN  /\ processed_stickers' = stickers
              /\ zip_file' = create_zip_download(stickers)
    /\ pc' = "zipped"
    /\ UNCHANGED <<original_image, cols, rows, apply_rembg, full_nobg,
                   min_area_percent, padding, contours, bounding_boxes,
                   cropped_images, warnings, errors, i>>

NextZip == call_create_zip_download

SpecZip == InitZip /\ [][NextZip]_vars

-----------------------------------------------------------------------------
(* The contour filter of find_sticker_contours: long and flat regions, and *)
(* regions whose area is about min_area.                                   *)

MaxContours == 1

FilterImages == {<<20, 10>>, <<50, 30>>}

\* Sizes <<w, h>> with longer side below, at and above 10 times the shorter.
FilterSizes ==
    {<<1, 1>>, <<9, 1>>, <<10, 1>>, <<11, 1>>, <<1, 10>>, <<19, 2>>,
     <<20, 2>>, <<4, 3>>, <<10, 10>>}

\* The boxes of these sizes in the image's top-left corner.
FilterBoxes(image) ==
    {b \in {<<0, 0, sz[1], sz[2]>> : sz \in FilterSizes} : box_inside(image, b)}

\* Regions in these boxes: empty, a triangle, as large as the box allows,
\* or of an area of 67.5 to 69 pixels.
FilterContours(image) ==
    {c \in [area2 : {0, 1, 135, 136, 137, 138}, box : FilterBoxes(image)] :
        RealContour(c)}
    \cup {c \in ContoursOf(FilterBoxes(image)) : RealContour(c)}

InitFilter == InitCommon /\ original_image \in FilterImages

call_find_sticker_contours_filter ==
    /\ pc = "main"
    /\ \E tenths \in {1, 5, 46, 50} :
       \E cs \in SeqsUpTo(FilterContours(original_image), MaxContours) :
       \E found \in {find_sticker_contours(original_image, cs, tenths)} :
          /\ min_area_percent' = tenths
          /\ contours' = cs
          /\ bounding_boxes' = found.boxes
          /\ pc' = IF found.raised THEN "exception" ELSE "found"
    /\ UNCHANGED <<original_image, cols, rows, apply_rembg, full_nobg,
                   padding, cropped_images, processed_stickers, warnings,
                   errors, zip_file, i>>

NextFilter == call_find_sticker_contours_filter

SpecFilter == InitFilter /\ [][NextFilter]_vars

-----------------------------------------------------------------------------
(* Properties.                                                             *)

\* The loop of either mode is running or has ended.
in_loop == pc \in {"grid_loop", "auto_loop"} \/ (pc = "done" /\ errors = <<>>)

\* s is strictly increasing.
increasing(s) == \A j \in 1..Len(s), k \in 1..Len(s) : j < k => s[j] < s[k]

Range(s) == {s[k] : k \in 1..Len(s)}

\* C1: grid_split on a W x H image with cols >= 1, rows >= 1 returns exactly
\* cols * rows crops, each of size (W // cols) x (H // rows), in row-major
\* order: the crop at index r * cols + c is the cell with top-left corner
\* (c * (W // cols), r * (H // rows)); no cell reaches into the remainder
\* pixels, W mod cols on the right and H mod rows at the bottom.
C1_grid_split ==
    pc # "main" =>
        LET W == original_image[1]
            H == original_image[2]
        IN  /\ Len(cropped_images) = cols * rows
            /\ \A r \in 0..(rows - 1), c \in 0..(cols - 1) :
                  LET cell == cropped_images[r * cols + c + 1] IN
                  /\ cell.size = <<W \div cols, H \div rows>>
                  /\ cell.box[1] = c * (W \div cols)
                  /\ cell.box[2] = r * (H \div rows)
                  /\ cell.box[3] = cell.box[1] + cell.size[1]
                  /\ cell.box[4] = cell.box[2] + cell.size[2]
                  /\ cell.box[3] <= W - (W % cols)
                  /\ cell.box[4] <= H - (H % rows)

\* A 1483 x 2245 sheet split 4 x 7: 3 and 5 remainder pixels.
C1_witness ==
    /\ pc = "grid_loop"
    /\ original_image = <<1483, 2245>>
    /\ cols = 4
    /\ rows = 7
    /\ Len(cropped_images) = 28

\* The run is the sheet scenario: 1480 x 2240, 4 x 7, no background removal.
sheet_scenario ==
    /\ pc # "main"
    /\ original_image = <<1480, 2240>>
    /\ cols = 4
    /\ rows = 7
    /\ ~apply_rembg

\* C4, as claimed: in the sheet scenario grid_split yields 28 crops of
\* exactly 370 x 320 and process_single_sticker is a no-op resize on each:
\* the resized artwork is 370 x 320 and fills the canvas.
C4_as_claimed ==
    sheet_scenario =>
        /\ Len(cropped_images) = 28
        /\ \A k \in 1..Len(cropped_images) : cropped_images[k].size = <<370, 320>>
        /\ \A k \in 1..Len(processed_stickers) :
              /\ processed_stickers[k].art = <<370, 320>>
              /\ processed_stickers[k].paste = <<0, 0>>

\* C4, amended: in the sheet scenario grid_split yields 28 crops of exactly
\* 370 x 320, and process_single_sticker scales each into the canvas less
\* the margin of 10 on every side: scale = min(350/370, 300/320) = 0.9375,
\* the resized artwork is 346 x 300, pasted at (12, 10) on a 370 x 320
\* canvas; every crop is composed.
C4_sheet_scenario ==
    sheet_scenario =>
        /\ Len(cropped_images) = 28
        /\ \A k \in 1..Len(cropped_images) : cropped_images[k].size = <<370, 320>>
        /\ Len(processed_stickers) = i
        /\ \A k \in 1..Len(processed_stickers) :
              /\ processed_stickers[k].canvas = <<370, 320>>
              /\ processed_stickers[k].art = <<346, 300>>
              /\ processed_stickers[k].paste = <<12, 10>>
              /\ processed_stickers[k].pixels = k

C4_witness == sheet_scenario /\ pc = "done" /\ Len(processed_stickers) = 28

\* C7: in both modes an exception while composing one region is caught, the
\* region is skipped and the loop goes on: the processed list is the
\* successfully composed regions in their order, every skipped region is
\* reported with its index, and processed + reported = regions gone through
\* (all of them when the loop has ended).
C7_failures_isolated ==
    in_loop =>
        /\ Len(processed_stickers) + Len(warnings) = i
        /\ pc = "done" => i = Len(cropped_images)
        /\ increasing(warnings)
        /\ increasing([k \in 1..Len(processed_stickers) |->
                          processed_stickers[k].pixels])
        /\ Range(warnings) \cup {st.pixels : st \in Range(processed_stickers)} = 1..i
        /\ Range(warnings) \cap {st.pixels : st \in Range(processed_stickers)} = {}
        /\ \A st \in Range(processed_stickers) :
              st.canvas = <<LINE_STICKER_MAX_WIDTH, LINE_STICKER_MAX_HEIGHT>>

\* A run whose second region failed, between two that were composed.
C7_witness ==
    /\ pc = "done"
    /\ Len(cropped_images) >= 3
    /\ warnings = <<2>>
    /\ Len(processed_stickers) = Len(cropped_images) - 1

\* C8: in process_auto_mode, when the full-image background removal failed
\* or detection returned no region, the run has stopped with exactly one
\* error, no composition was attempted and there is no archive; an archive
\* exists only after the removal succeeded and a region was detected.
C8_auto_mode_aborts ==
    /\ (\/ full_nobg = "raised"
        \/ (full_nobg = "removed" /\ pc # "exception" /\ bounding_boxes = <<>>))
       => /\ pc = "done"
          /\ Len(errors) = 1
          /\ cropped_images = <<>>
          /\ processed_stickers = <<>>
          /\ warnings = <<>>
          /\ i = 0
          /\ zip_file = <<>>
    /\ (full_nobg # "unset" /\ zip_file # <<>>)
       => /\ full_nobg = "removed"
          /\ bounding_boxes # <<>>
          /\ errors = <<>>

\* Detection found contours and the filters rejected every one.
C8_witness ==
    /\ full_nobg = "removed"
    /\ pc = "done"
    /\ contours # <<>>
    /\ bounding_boxes = <<>>
    /\ errors = <<"no_stickers">>

\* A composer returned: pc names it.
composed == pc \in {"process_single_sticker", "resize_to_main", "resize_to_tab"}

\* The canvas size the composer pc names is to produce.
target_size ==
    CASE pc = "process_single_sticker" -> <<370, 320>>
      [] pc = "resize_to_main" -> <<240, 240>>
      [] pc = "resize_to_tab" -> <<96, 74>>

\* The gap g before the artwork and the gap after it, on an axis where the
\* canvas is canvas long and the artwork art: both are in the canvas, they
\* sum to canvas - art by construction, and they differ by at most 1.
centered(canvas, art, g) ==
    LET after == canvas - (g + art) IN
    /\ g >= 0
    /\ after >= 0
    /\ g - after <= 1
    /\ after - g <= 1

\* C5: each composer, on a crop of width >= 1 and height >= 1, returns a
\* canvas of exactly the target size with the resized artwork centered: the
\* left and right gaps sum to canvas_w - artwork_w and differ by at most 1,
\* and so do the top and bottom gaps with the heights.
C5_canvas_centered ==
    (composed /\ cropped_images[1].size[1] >= 1 /\ cropped_images[1].size[2] >= 1)
    => LET st == processed_stickers[1] IN
       /\ st.canvas = target_size
       /\ st.art[1] >= 1
       /\ st.art[2] >= 1
       /\ centered(st.canvas[1], st.art[1], st.paste[1])
       /\ centered(st.canvas[2], st.art[2], st.paste[2])

\* resize_to_tab with an odd number of pixels to split left and right.
C5_witness ==
    /\ pc = "resize_to_tab"
    /\ cropped_images[1].size[1] >= 1
    /\ cropped_images[1].size[2] >= 1
    /\ (processed_stickers[1].canvas[1] - processed_stickers[1].art[1]) % 2 = 1
    /\ processed_stickers[1].paste[1] >= 1

\* C9: each composer, given a crop of zero width or zero height once the
\* background-removal step is over, returns a fully transparent canvas of
\* exactly the target size; the cells of an image with W < cols or H < rows,
\* composed without background removal, give such canvases and no error.
C9_empty_crop ==
    /\ (composed /\ (cropped_images[1].size[1] = 0 \/ cropped_images[1].size[2] = 0))
       => /\ processed_stickers[1].canvas = target_size
          /\ processed_stickers[1].art = <<0, 0>>
    /\ (pc # "main" /\ ~apply_rembg
           /\ (original_image[1] < cols \/ original_image[2] < rows))
       => /\ composed
          /\ processed_stickers[1].canvas = target_size
          /\ processed_stickers[1].art = <<0, 0>>

\* resize_to_main on the first cell of an image narrower than the grid.
C9_witness ==
    /\ pc = "resize_to_main"
    /\ original_image[1] < cols
    /\ ~apply_rembg
    /\ cropped_images[1].size[1] = 0
    /\ cropped_images[1].size[2] >= 1

\* C6: for boxes inside the image and padding >= 0, crop_stickers_by_boxes
\* never raises and returns one crop per box, in the boxes' order, each
\* crop rectangle (x1, y1, x2, y2) with 0 <= x1 <= x2 <= W and
\* 0 <= y1 <= y2 <= H and containing its box.
C6_crop_in_bounds ==
    pc # "main" =>
        /\ pc = "cropped"
        /\ Len(cropped_images) = Len(bounding_boxes)
        /\ \A k \in 1..Len(bounding_boxes) :
              LET r == cropped_images[k].box
                  b == bounding_boxes[k]
              IN  /\ 0 <= r[1] /\ r[1] <= r[3] /\ r[3] <= original_image[1]
                  /\ 0 <= r[2] /\ r[2] <= r[4] /\ r[4] <= original_image[2]
                  /\ r[1] <= b[1] /\ b[1] + b[3] <= r[3]
                  /\ r[2] <= b[2] /\ b[2] + b[4] <= r[4]
                  /\ cropped_images[k].size = <<r[3] - r[1], r[4] - r[2]>>

\* Two boxes, the first filling the image, with padding.
C6_witness ==
    /\ pc = "cropped"
    /\ padding = MaxPadding
    /\ Len(bounding_boxes) = 2
    /\ bounding_boxes[1] = <<0, 0, original_image[1], original_image[2]>>
    /\ bounding_boxes[2] # bounding_boxes[1]

\* The value of a decimal numeral, most significant digit first.
RECURSIVE numeral_value(_)
numeral_value(d) ==
    IF d = <<>> THEN 0
    ELSE 10 * numeral_value(SubSeq(d, 1, Len(d) - 1)) + d[Len(d)]

\* The archive holds one entry per sticker, the k-th sticker under a name
\* sticker_<numeral of k>.png, in the list's order, the names distinct.
zip_entries_in_order ==
    /\ Len(zip_file) = Len(processed_stickers)
    /\ \A k \in 1..Len(zip_file) :
          /\ zip_file[k].data = processed_stickers[k]
          /\ zip_file[k].name.prefix = "sticker_"
          /\ zip_file[k].name.suffix = ".png"
          /\ \A d \in 1..Len(zip_file[k].name.number) :
                zip_file[k].name.number[d] \in 0..9
          /\ numeral_value(zip_file[k].name.number) = k
    /\ \A j \in 1..Len(zip_file), k \in 1..Len(zip_file) :
          j # k => zip_file[j].name # zip_file[k].name

\* C10, as claimed: for every list of n >= 1 stickers, n up to 400,
\* create_zip_download writes n entries, the k-th sticker under
\* sticker_NN.png with NN the two-digit zero-padded numeral of k; the names
\* are distinct and follow the list's order.
C10_as_claimed ==
    pc = "zipped" =>
        /\ zip_entries_in_order
        /\ \A k \in 1..Len(zip_file) : Len(zip_file[k].name.number) = 2

\* C10, amended: for every list of n >= 1 stickers, n up to 400,
\* create_zip_download writes n entries, the k-th sticker under
\* sticker_<k>.png with k zero-padded to at least two digits: two digits
\* (01..99) for k < 100 and the three digits of k from 100 on; the names are
\* distinct and follow the list's order.
C10_zip_names ==
    pc = "zipped" =>
        /\ zip_entries_in_order
        /\ \A k \in 1..Len(zip_file) :
              /\ k < 100 => Len(zip_file[k].name.number) = 2
              /\ k >= 100 => /\ Len(zip_file[k].name.number) = 3
                             /\ zip_file[k].name.number[1] # 0

\* The archive of a 20 x 20 grid.
C10_witness ==
    /\ pc = "zipped"
    /\ Len(processed_stickers) = MAX_GRID * MAX_GRID
    /\ Len(zip_file) = MAX_GRID * MAX_GRID

\* Sum of the heights and number of the boxes found.
found_heights == sum_heights(bounding_boxes)

found_count == Len(bounding_boxes)

\* y // row_band with row_band = average height * 0.5, a real number:
\* floor(y / (sum / (2 * count))) = floor(2 * count * y / sum).
real_band(box) == (2 * found_count * box[2]) \div found_heights

\* y // row_band with row_band = floor(average height * 0.5), an integer:
\* floor(sum / (2 * count)).
floor_band(box) == box[2] \div (found_heights \div (2 * found_count))

\* C2, as claimed: the boxes find_sticker_contours returns are ordered by
\* y // row_band with row_band = average height * 0.5, and within a band
\* by x.
C2_as_claimed ==
    (pc = "found" /\ bounding_boxes # <<>>) =>
        \A j \in 1..Len(bounding_boxes), k \in 1..Len(bounding_boxes) :
            j < k =>
                \/ real_band(bounding_boxes[j]) < real_band(bounding_boxes[k])
                \/ /\ real_band(bounding_boxes[j]) = real_band(bounding_boxes[k])
                   /\ bounding_boxes[j][1] <= bounding_boxes[k][1]

\* C2, amended: the boxes find_sticker_contours returns are ordered by
\* y // row_band with row_band = floor(average height * 0.5), the average
\* taken over the returned boxes, and within a band by x; the boxes
\* returned are the boxes that passed the filters.
C2_reading_order ==
    (pc = "found" /\ bounding_boxes # <<>>) =>
        /\ found_heights \div (2 * found_count) >= 1
        /\ \A j \in 1..Len(bounding_boxes), k \in 1..Len(bounding_boxes) :
              j < k =>
                  \/ floor_band(bounding_boxes[j]) < floor_band(bounding_boxes[k])
                  \/ /\ floor_band(bounding_boxes[j]) = floor_band(bounding_boxes[k])
                     /\ bounding_boxes[j][1] <= bounding_boxes[k][1]
        /\ Len(bounding_boxes) <= Len(contours)
        /\ Range(bounding_boxes) \subseteq {c.box : c \in Range(contours)}

\* Two boxes of one band, of height 5, returned left to right although the
\* right one was found first and lies higher.
C2_witness ==
    /\ pc = "found"
    /\ Len(contours) = 2
    /\ contours[1].box = <<1, 0, 5, 5>>
    /\ contours[2].box = <<0, 1, 5, 5>>
    /\ bounding_boxes = <<contours[2].box, contours[1].box>>

\* C3: the divisor of the sort, int(row_threshold), is never zero: for
\* every non-empty list of boxes that passed the filters, also of average
\* height 1, it is at least 1 and the sort ends without a division by zero.
C3_divisor_positive ==
    (pc # "main" /\ bounding_boxes # <<>>) =>
        /\ pc = "found"
        /\ row_divisor(bounding_boxes) >= 1

\* floor(image_area * min_area_percent / 100) in exact arithmetic, the
\* percentage being min_area_percent tenths.
exact_min_area ==
    (original_image[1] * original_image[2] * min_area_percent) \div 1000

\* The boxes of the contours that satisfy keep, and how many contours do.
boxes_kept(keep(_)) ==
    /\ Range(bounding_boxes) = {c.box : c \in {c \in Range(contours) : keep(c)}}
    /\ Len(bounding_boxes) =
           Cardinality({k \in 1..Len(contours) : keep(contours[k])})

\* C11, as claimed: the filter keeps a region's box (w, h >= 1) if and only
\* if its area is at least floor(image_area * min_area_percent / 100) and
\* its longer side is at most 10 times its shorter side; a box of exactly
\* 10 times is kept.
C11_as_claimed ==
    pc # "main" =>
        LET keep(c) ==
                /\ c.area2 >= 2 * exact_min_area
                /\ Max(c.box[3], c.box[4]) <= 10 * Min(c.box[3], c.box[4])
        IN  boxes_kept(keep)

\* C11, amended: the filter keeps a region's box (w, h >= 1) if and only if
\* its area is at least min_area, the integer part of the floating-point
\* value of image_area * min_area_percent / 100 (the exact floor or one
\* less), and its longer side is less than 10 times its shorter side; a box
\* whose longer side is exactly 10 times the shorter side is rejected.
C11_contour_filter ==
    pc # "main" =>
        LET min_area == min_area_of(original_image, min_area_percent)
            keep(c) ==
                /\ c.area2 >= 2 * min_area
                /\ Max(c.box[3], c.box[4]) < 10 * Min(c.box[3], c.box[4])
        IN  /\ min_area \in {exact_min_area - 1, exact_min_area}
            /\ min_area >= 0
            /\ boxes_kept(keep)

\* A region 20 x 2 of area 19, above min_area = 10, rejected for its shape.
C11_witness ==
    /\ pc = "found"
    /\ original_image = <<20, 10>>
    /\ min_area_percent = 50
    /\ contours = <<[area2 |-> 38, box |-> <<0, 0, 20, 2>>]>>
    /\ bounding_boxes = <<>>

=============================================================================
